---------------------------- MODULE Spec2Model ----------------------------
(***************************************************************************)
(* A model of the Google Sheets / Drive HTTP proxy (src/index.js), of its  *)
(* earlier variant with GET /list_folder_files (src/unnamed/part_000) and  *)
(* of the MCP tool functions (src/unnamed/part_001).                       *)
(*                                                                         *)
(* Requests are handled one at a time.  A handler is one action: it runs   *)
(* from the arrival of the request to the response, and the outcomes of    *)
(* its awaits (auth.getClient(), the upstream call) are inputs of the      *)
(* action.  The order of the handler's effects is kept in `trace`.         *)
(***************************************************************************)
EXTENDS Naturals, Sequences, FiniteSets, TLC

(***************************************************************************)
(* JavaScript values.  Every value is a record of one shape, so that any   *)
(* two of them can be compared: t is the type tag, n the number, s the     *)
(* characters of a string, a the elements of an array.                     *)
(***************************************************************************)
Undef  == [t |-> "undefined", n |-> 0, s |-> <<>>, a |-> <<>>]
Null   == [t |-> "null",      n |-> 0, s |-> <<>>, a |-> <<>>]
Obj    == [t |-> "object",    n |-> 0, s |-> <<>>, a |-> <<>>]
Num(k) == [t |-> "number",    n |-> k, s |-> <<>>, a |-> <<>>]
Str(c) == [t |-> "string",    n |-> 0, s |-> c,    a |-> <<>>]
Arr(e) == [t |-> "array",     n |-> 0, s |-> <<>>, a |-> e]

\* typeof v === "string"
IsString(v) == v.t = "string"

\* v === undefined; an object literal is a record with t = "object" and
\* its own fields.
IsUndefined(v) == v.t = "undefined"

\* Array.isArray(v)
IsArray(v) == v.t = "array"

\* ToBoolean(v): what `!v`, `v || w` and `v ? a : b` test.
Truthy(v) ==
  CASE v.t = "undefined" -> FALSE
    [] v.t = "null"      -> FALSE
    [] v.t = "number"    -> v.n # 0
    [] v.t = "string"    -> Len(v.s) > 0
    [] OTHER             -> TRUE

\* v || w
OrElse(v, w) == IF Truthy(v) THEN v ELSE w

(***************************************************************************)
(* JSON text is a sequence of one-character strings.                       *)
(***************************************************************************)
Quote == "\""

Digits == {"0", "1", "2", "3", "4", "5", "6", "7", "8", "9"}

DigitValue(c) ==
  CASE c = "0" -> 0 [] c = "1" -> 1 [] c = "2" -> 2 [] c = "3" -> 3
    [] c = "4" -> 4 [] c = "5" -> 5 [] c = "6" -> 6 [] c = "7" -> 7
    [] c = "8" -> 8 [] c = "9" -> 9

DigitChar(d) == <<"0", "1", "2", "3", "4", "5", "6", "7", "8", "9">>[d + 1]

RECURSIVE NumberText(_)
NumberText(k) ==
  IF k < 10 THEN <<DigitChar(k)>>
  ELSE NumberText(k \div 10) \o <<DigitChar(k % 10)>>

\* JSON.stringify(v) for a value other than undefined (null, and inside
\* an array undefined too, is written null).  A string's quote and backslash
\* characters are escaped with a backslash.
RECURSIVE EscapeText(_)
EscapeText(c) ==
  IF c = <<>> THEN <<>>
  ELSE (IF Head(c) \in {Quote, "\\"} THEN <<"\\", Head(c)>> ELSE <<Head(c)>>)
       \o EscapeText(Tail(c))

RECURSIVE JSONStringify(_)
RECURSIVE StringifyElements(_)
StringifyElements(e) ==
  IF e = <<>> THEN <<>>
  ELSE IF Len(e) = 1 THEN JSONStringify(e[1])
  ELSE JSONStringify(e[1]) \o <<",">> \o StringifyElements(Tail(e))

JSONStringify(v) ==
  CASE v.t = "array"  -> <<"[">> \o StringifyElements(v.a) \o <<"]">>
    [] v.t = "string" -> <<Quote>> \o EscapeText(v.s) \o <<Quote>>
    [] v.t = "number" -> NumberText(v.n)
    [] v.t = "object" -> <<"{", "}">>
    [] OTHER          -> <<"n", "u", "l", "l">>

(***************************************************************************)
(* JSON.parse(text): a recursive-descent parser of the JSON grammar over   *)
(* the characters above (no whitespace, no fraction or exponent, the       *)
(* literal null, the empty object).  A parse step answers                  *)
(* [ok, v, i]: whether a value was read, the value, the next position.     *)
(***************************************************************************)
ParseFail == [ok |-> FALSE, v |-> Undef, i |-> 0]

ParseOk(v, i) == [ok |-> TRUE, v |-> v, i |-> i]

At(text, i) == IF i <= Len(text) THEN text[i] ELSE "<end>"

RECURSIVE ParseDigits(_, _, _)
ParseDigits(text, i, acc) ==
  IF At(text, i) \in Digits
  THEN ParseDigits(text, i + 1, 10 * acc + DigitValue(text[i]))
  ELSE ParseOk(Num(acc), i)

\* A number: no leading zero before another digit.
ParseNumber(text, i) ==
  IF At(text, i) = "0"
  THEN (IF At(text, i + 1) \in Digits THEN ParseFail ELSE ParseOk(Num(0), i + 1))
  ELSE ParseDigits(text, i, 0)

\* The characters of a string after its opening quote.
RECURSIVE ParseChars(_, _, _)
ParseChars(text, i, acc) ==
  CASE i > Len(text)     -> ParseFail
    [] At(text, i) = Quote -> ParseOk(Str(acc), i + 1)
    [] At(text, i) = "\\"  ->
         IF At(text, i + 1) \in {Quote, "\\"}
         THEN ParseChars(text, i + 2, Append(acc, text[i + 1]))
         ELSE ParseFail
    [] OTHER             -> ParseChars(text, i + 1, Append(acc, text[i]))

RECURSIVE ParseValue(_, _)
RECURSIVE ParseElements(_, _, _)
\* The elements of an array, at the position of an element.
ParseElements(text, i, acc) ==
  LET e == ParseValue(text, i) IN
  IF ~e.ok THEN ParseFail
  ELSE CASE At(text, e.i) = "," -> ParseElements(text, e.i + 1, Append(acc, e.v))
         [] At(text, e.i) = "]" -> ParseOk(Arr(Append(acc, e.v)), e.i + 1)
         [] OTHER               -> ParseFail

ParseValue(text, i) ==
  CASE At(text, i) = "["    ->
         IF At(text, i + 1) = "]" THEN ParseOk(Arr(<<>>), i + 2)
         ELSE ParseElements(text, i + 1, <<>>)
    [] At(text, i) = Quote  -> ParseChars(text, i + 1, <<>>)
    [] At(text, i) \in Digits -> ParseNumber(text, i)
    [] At(text, i) = "{"    ->
         IF At(text, i + 1) = "}" THEN ParseOk(Obj, i + 2) ELSE ParseFail
    [] At(text, i) = "n"    ->
         IF /\ At(text, i + 1) = "u" /\ At(text, i + 2) = "l" /\ At(text, i + 3) = "l"
         THEN ParseOk(Null, i + 4) ELSE ParseFail
    [] OTHER                -> ParseFail

\* JSON.parse(text): [ok |-> FALSE] is the SyntaxError it throws.
JSONParse(text) ==
  LET r == ParseValue(text, 1) IN
  IF r.ok /\ r.i = Len(text) + 1 THEN [ok |-> TRUE, v |-> r.v]
  ELSE [ok |-> FALSE, v |-> Undef]


(***************************************************************************)
(* Bounds of the model and the sets the inputs are drawn from.             *)
(***************************************************************************)
\* Longest text drawn character by character for a `values` string.
MaxStrLen == 2

\* Most rows of a value matrix in a request.
MaxRows == 2

\* Most rows the upstream sheet holds (its grid limit).
MaxSheetRows == 3

TextChars == {"[", "]", "1", "x"}

Texts == UNION {[1..k -> TextChars] : k \in 0..MaxStrLen}

Cells == {Num(1), Str(<<"x">>)}

\* The rows of the sampled matrices: one cell, or two.
SampleRows == {<<c>> : c \in Cells} \cup {<<Str(<<"x">>), Num(1)>>}

RowValues == {Arr(r) : r \in SampleRows}

Matrices == UNION {{Arr(m) : m \in [1..k -> RowValues]} : k \in 0..MaxRows}

\* What a JSON text can decode to besides a matrix.
NonMatrices == {Null, Num(1), Obj, Arr(<<Num(1)>>)}

\* The `values` of a request body: absent, any JSON value, any short text,
\* and the JSON text of every sampled value.
ValuesInputs ==
  {Undef} \cup NonMatrices \cup Matrices
  \cup {Str(c) : c \in Texts}
  \cup {Str(JSONStringify(v)) : v \in Matrices \cup NonMatrices}

SpreadsheetIds == {Undef, Str(<<>>), Str(<<"S">>)}

Ranges == {Undef, Str(<<>>), Str(<<"R">>)}

\* req.query.folderId: absent or a string.
QueryFolderIds == {Undef, Str(<<>>), Str(<<"F">>)}

\* req.body.folderId: any JSON value.
BodyFolderIds == QueryFolderIds \cup {Null, Num(0), Num(7)}

UpstreamMessages == {"Requested entity was not found.", "The caller does not have permission"}

\* The error auth.getClient() rejects with when the key file is unusable.
CredentialMessage == "The file at /etc/secrets/typingmind.json does not exist"

\* The outcome of the one upstream call of a request: it resolves (with the
\* optional fields of its answer present or absent) or rejects with a message.
Outcomes ==
  {[called |-> TRUE, ok |-> TRUE, message |-> "", sparse |-> b] : b \in BOOLEAN}
  \cup {[called |-> TRUE, ok |-> FALSE, message |-> m, sparse |-> FALSE] :
          m \in UpstreamMessages}

\* No upstream call was issued.
NoOutcome == [called |-> FALSE, ok |-> FALSE, message |-> "", sparse |-> FALSE]

(***************************************************************************)
(* State.                                                                  *)
(***************************************************************************)
VARIABLES
  credential,   \* "valid" or "unusable": the key file behind GoogleAuth
  sheet,        \* the upstream sheet at the range: a sequence of rows of cells
  req,          \* the request being answered: [op, body]
  trace,        \* what its handler did, in order: handles acquired, calls issued
  outcome,      \* how its upstream call ended, if it issued one
  probes,       \* how the queries of the diagnostic prober ended, in order
  res           \* the response it produced

vars == <<credential, sheet, req, trace, outcome, probes, res>>

EmptyBody == [spreadsheetId |-> Undef, range |-> Undef, values |-> Undef, folderId |-> Undef]

SheetBody(id, range, values) ==
  [spreadsheetId |-> id, range |-> range, values |-> values, folderId |-> Undef]

FolderBody(folderId) ==
  [spreadsheetId |-> Undef, range |-> Undef, values |-> Undef, folderId |-> folderId]

ReadBodies == {SheetBody(i, r, Undef) : i \in SpreadsheetIds, r \in Ranges}

WriteBodies == {SheetBody(i, r, v) : i \in SpreadsheetIds, r \in Ranges, v \in ValuesInputs}

(***************************************************************************)
(* Responses.  A body is a payload, an {error: message} object, or empty.  *)
(***************************************************************************)
DefaultStatus == 200

BadRequest == 400

ServerError == 500

PayloadBody(v) == [kind |-> "payload", message |-> "", payload |-> v]

ErrorBody(m) == [kind |-> "error", message |-> m, payload |-> Undef]

NoBody == [kind |-> "empty", message |-> "", payload |-> Undef]

\* res.status(status).json(v) for a JavaScript value v: JSON.stringify of
\* undefined is undefined, and the response is sent without a body.
SendJson(status, v) ==
  [via |-> "http", status |-> status, body |-> IF IsUndefined(v) THEN NoBody ELSE PayloadBody(v)]

\* res.status(status).json({ error: message })
SendError(status, m) == [via |-> "http", status |-> status, body |-> ErrorBody(m)]

\* A tool function's `return v`, and an error thrown out of it.
ToolReturn(v) ==
  [via |-> "tool", status |-> 0, body |-> IF IsUndefined(v) THEN NoBody ELSE PayloadBody(v)]

ToolThrow(m) == [via |-> "tool", status |-> 0, body |-> ErrorBody(m)]

NoResponse == [via |-> "none", status |-> 0, body |-> NoBody]

(***************************************************************************)
(* The trace of a handler: handles acquired and upstream calls issued.     *)
(***************************************************************************)
NoArgs ==
  [spreadsheetId |-> Undef, range |-> Undef, values |-> Undef,
   valueInputOption |-> "", insertDataOption |-> "",
   parent |-> <<>>, byParent |-> FALSE, notTrashed |-> FALSE,
   spreadsheetsOnly |-> FALSE, orderBy |-> "", pageSize |-> 0,
   allDrives |-> FALSE, fileId |-> <<>>, fields |-> ""]

\* await auth.getClient() in getSheets(), getDrive() or getClients().
Acquire(cap) == [ev |-> "acquire", api |-> cap, args |-> NoArgs]

Call(api, args) == [ev |-> "call", api |-> api, args |-> args]

Calls(t) == SelectSeq(t, LAMBDA e : e.ev = "call")

Acquires(t) == SelectSeq(t, LAMBDA e : e.ev = "acquire")

CredentialOk == credential = "valid"

Result(t, r, sh) == [trace |-> t, res |-> r, sheet |-> sh]

(***************************************************************************)
(* The upstream provider.  The sheet at the range is a sequence of rows; a *)
(* row with no cell is blank.  The table the provider finds at the range   *)
(* is the run of rows before the first blank one.                          *)
(***************************************************************************)
Blank == <<>>

InitialSheets == {<<>>, <<Blank, <<Str(<<"x">>)>>>>}

Max(a, b) == IF a >= b THEN a ELSE b

\* The row after the table: where an append writes.
TableEnd(sh) ==
  IF \E i \in 1..Len(sh) : sh[i] = Blank
  THEN CHOOSE i \in 1..Len(sh) : sh[i] = Blank /\ \A j \in 1..(i - 1) : sh[j] # Blank
  ELSE Len(sh) + 1

\* A value matrix: an array of arrays of scalars.
IsMatrix(v) ==
  /\ IsArray(v)
  /\ \A i \in 1..Len(v.a) :
       /\ IsArray(v.a[i])
       /\ \A j \in 1..Len(v.a[i].a) : v.a[i].a[j].t \in {"number", "string"}

RowsOf(v) == [i \in 1..Len(v.a) |-> v.a[i].a]

MatrixOf(rows) == Arr([i \in 1..Len(rows) |-> Arr(rows[i])])

\* insertDataOption INSERT_ROWS: rows are inserted for the new data.
InsertRows(sh, rows) ==
  LET t == TableEnd(sh) IN
  SubSeq(sh, 1, t - 1) \o rows \o SubSeq(sh, t, Len(sh))

\* insertDataOption OVERWRITE, the provider's default: the new data
\* overwrites what is in the rows it is written to.
OverwriteRows(sh, rows) ==
  LET t == TableEnd(sh) IN
  [i \in 1..Max(Len(sh), t - 1 + Len(rows)) |->
     IF i >= t /\ i < t + Len(rows) THEN rows[i - t + 1] ELSE sh[i]]

\* values.update: the rows are written from the first row of the range.
UpdateRows(sh, rows) ==
  [i \in 1..Max(Len(sh), Len(rows)) |-> IF i <= Len(rows) THEN rows[i] ELSE sh[i]]

\* The sheet after a call the provider carries out.
SheetAfter(call) ==
  CASE call.api = "values.append" ->
         IF call.args.insertDataOption = "INSERT_ROWS"
         THEN InsertRows(sheet, RowsOf(call.args.values))
         ELSE OverwriteRows(sheet, RowsOf(call.args.values))
    [] call.api = "values.update" -> UpdateRows(sheet, RowsOf(call.args.values))
    [] OTHER -> sheet

\* The calls the provider can carry out: the others it rejects.
Accepts(call) ==
  call.api \in {"values.get", "values.append", "values.update"} =>
    /\ IsString(call.args.spreadsheetId) /\ Truthy(call.args.spreadsheetId)
    /\ IsString(call.args.range) /\ Truthy(call.args.range)
    /\ call.api # "values.get" =>
         /\ IsMatrix(call.args.values)
         /\ Len(SheetAfter(call)) <= MaxSheetRows

\* values.get: the rows down to the last one that holds data; the field
\* `values` is absent when the range holds none.
RECURSIVE TrimBlank(_)
TrimBlank(sh) ==
  IF sh = <<>> THEN <<>>
  ELSE IF sh[Len(sh)] = Blank THEN TrimBlank(SubSeq(sh, 1, Len(sh) - 1))
  ELSE sh

ValuesOf(sh) == IF TrimBlank(sh) = <<>> THEN Undef ELSE MatrixOf(TrimBlank(sh))

FileEntry == [t |-> "object", id |-> "F1", name |-> "Report"]

\* response.data of a call that resolved with outcome o.
ResponseData(call, o) ==
  [values  |-> IF call.api = "values.get" THEN ValuesOf(sheet) ELSE Undef,
   updates |-> IF call.api = "values.append" /\ ~o.sparse
               THEN [t |-> "object", updatedRows |-> Len(call.args.values.a)] ELSE Undef,
   updatedRange |-> IF call.api = "values.update" /\ ~o.sparse
                    THEN call.args.range ELSE Undef,
   files   |-> IF call.api = "files.list" /\ ~o.sparse
               THEN Arr(<<FileEntry>>) ELSE Undef]

\* What a handler's run asks of the provider: a call that resolves is one
\* the provider can carry out.
Realizable(r, o) ==
  \A i \in 1..Len(r.trace) :
    (r.trace[i].ev = "call" /\ o.ok) => Accepts(r.trace[i])

(***************************************************************************)
(* The HTTP handlers of index.js.  Each answers                            *)
(* [trace, res, sheet]: what it did, its response, the sheet afterwards.   *)
(* o is the outcome of its upstream call, should it issue one.             *)
(***************************************************************************)
\* `${v}` for a string or a number.
ToStringJS(v) == IF v.t = "number" THEN NumberText(v.n) ELSE v.s

\* v?.length || 0 for an array or undefined
LengthOrZero(v) == IF IsArray(v) THEN Len(v.a) ELSE 0

\* app.get("/list_sheets")
list_sheets(o) ==
  LET call == Call("files.list",
                   [NoArgs EXCEPT !.spreadsheetsOnly = TRUE, !.notTrashed = TRUE,
                                  !.orderBy = "modifiedTime desc", !.pageSize = 100])
      files == OrElse(ResponseData(call, o).files, Arr(<<>>))
  IN
  IF ~CredentialOk
  THEN Result(<<Acquire("drive")>>, SendError(ServerError, CredentialMessage), sheet)
  ELSE IF ~o.ok
  THEN Result(<<Acquire("drive"), call>>, SendError(ServerError, o.message), sheet)
  ELSE Result(<<Acquire("drive"), call>>, SendJson(DefaultStatus, files), sheet)

\* list_folder without its folderId check: the handle is acquired and the
\* call issued whatever folderId is.
list_folder_unvalidated(body, o) ==
  LET folderId == body.folderId
      call == Call("files.list",
                   [NoArgs EXCEPT !.byParent = TRUE, !.parent = ToStringJS(folderId),
                                  !.notTrashed = TRUE, !.pageSize = 100])
      files == ResponseData(call, o).files
  IN
  IF ~CredentialOk
  THEN Result(<<Acquire("drive")>>, SendError(ServerError, CredentialMessage), sheet)
  ELSE IF ~o.ok
  THEN Result(<<Acquire("drive"), call>>, SendError(ServerError, o.message), sheet)
  ELSE Result(<<Acquire("drive"), call>>,
              SendJson(DefaultStatus,
                       [t |-> "object", success |-> TRUE, folderId |-> folderId,
                        fileCount |-> LengthOrZero(files),
                        files |-> OrElse(files, Arr(<<>>))]),
              sheet)

\* app.post("/list_folder")
list_folder(body, o) ==
  LET folderId == body.folderId
      call == Call("files.list",
                   [NoArgs EXCEPT !.byParent = TRUE, !.parent = ToStringJS(folderId),
                                  !.notTrashed = TRUE, !.pageSize = 100])
      files == ResponseData(call, o).files
  IN
  IF ~Truthy(folderId)
  THEN Result(<<>>, SendError(BadRequest, "Missing folderId in request body"), sheet)
  ELSE IF ~CredentialOk
  THEN Result(<<Acquire("drive")>>, SendError(ServerError, CredentialMessage), sheet)
  ELSE IF ~o.ok
  THEN Result(<<Acquire("drive"), call>>, SendError(ServerError, o.message), sheet)
  ELSE Result(<<Acquire("drive"), call>>,
              SendJson(DefaultStatus,
                       [t |-> "object", success |-> TRUE, folderId |-> folderId,
                        fileCount |-> LengthOrZero(files),
                        files |-> OrElse(files, Arr(<<>>))]),
              sheet)

\* app.get("/list_folder_files"), of the variant in part_000: files.length
\* throws a TypeError when the answer holds no files field.
list_folder_files(query, o) ==
  LET folderId == query.folderId
      call == Call("files.list",
                   [NoArgs EXCEPT !.byParent = TRUE, !.parent = ToStringJS(folderId),
                                  !.notTrashed = TRUE, !.orderBy = "modifiedTime desc"])
      files == ResponseData(call, o).files
  IN
  IF ~Truthy(folderId)
  THEN Result(<<>>, SendError(BadRequest, "Missing folderId query parameter"), sheet)
  ELSE IF ~CredentialOk
  THEN Result(<<Acquire("drive")>>, SendError(ServerError, CredentialMessage), sheet)
  ELSE IF ~o.ok
  THEN Result(<<Acquire("drive"), call>>, SendError(ServerError, o.message), sheet)
  ELSE IF IsUndefined(files)
  THEN Result(<<Acquire("drive"), call>>,
              SendError(ServerError, "Cannot read properties of undefined (reading 'length')"),
              sheet)
  ELSE Result(<<Acquire("drive"), call>>,
              SendJson(DefaultStatus,
                       [t |-> "object", success |-> TRUE, folderId |-> folderId,
                        fileCount |-> Len(files.a), files |-> files]),
              sheet)

\* app.post("/read_sheet")
read_sheet(body, o) ==
  LET call == Call("values.get",
                   [NoArgs EXCEPT !.spreadsheetId = body.spreadsheetId,
                                  !.range = body.range])
      values == ResponseData(call, o).values
  IN
  IF ~CredentialOk
  THEN Result(<<Acquire("sheets")>>, SendError(ServerError, CredentialMessage), sheet)
  ELSE IF ~o.ok
  THEN Result(<<Acquire("sheets"), call>>, SendError(ServerError, o.message), sheet)
  ELSE Result(<<Acquire("sheets"), call>>,
              SendJson(DefaultStatus, OrElse(values, Arr(<<>>))), SheetAfter(call))

\* app.post("/write_sheet")
write_sheet(body, o) ==
  LET call == Call("values.append",
                   [NoArgs EXCEPT !.spreadsheetId = body.spreadsheetId,
                                  !.range = body.range,
                                  !.valueInputOption = "USER_ENTERED",
                                  !.insertDataOption = "INSERT_ROWS",
                                  !.values = body.values])
  IN
  IF ~CredentialOk
  THEN Result(<<Acquire("sheets")>>, SendError(ServerError, CredentialMessage), sheet)
  ELSE IF ~o.ok
  THEN Result(<<Acquire("sheets"), call>>, SendError(ServerError, o.message), sheet)
  ELSE Result(<<Acquire("sheets"), call>>,
              SendJson(DefaultStatus, ResponseData(call, o).updates), SheetAfter(call))

\* update_sheet with a retry: a rejected call is issued once more before
\* the 500 is sent.
update_sheet_retrying(body, o) ==
  LET values == body.values
      parsed == IF IsString(values) THEN JSONParse(values.s)
                ELSE [ok |-> TRUE, v |-> values]
      call == Call("values.update",
                   [NoArgs EXCEPT !.spreadsheetId = body.spreadsheetId,
                                  !.range = body.range,
                                  !.valueInputOption = "USER_ENTERED",
                                  !.values = parsed.v])
  IN
  IF ~CredentialOk
  THEN Result(<<Acquire("sheets")>>, SendError(ServerError, CredentialMessage), sheet)
  ELSE IF ~parsed.ok
  THEN Result(<<Acquire("sheets")>>,
              SendError(BadRequest, "Invalid JSON in 'values' field"), sheet)
  ELSE IF ~o.ok
  THEN Result(<<Acquire("sheets"), call, call>>, SendError(ServerError, o.message), sheet)
  ELSE Result(<<Acquire("sheets"), call>>,
              SendJson(DefaultStatus,
                       [t |-> "object", updatedRange |-> ResponseData(call, o).updatedRange]),
              SheetAfter(call))

\* app.post("/update_sheet"): the handle is acquired first, then a string
\* `values` is parsed, then the call is issued.
update_sheet(body, o) ==
  LET values == body.values
      parsed == IF IsString(values) THEN JSONParse(values.s)
                ELSE [ok |-> TRUE, v |-> values]
      call == Call("values.update",
                   [NoArgs EXCEPT !.spreadsheetId = body.spreadsheetId,
                                  !.range = body.range,
                                  !.valueInputOption = "USER_ENTERED",
                                  !.values = parsed.v])
  IN
  IF ~CredentialOk
  THEN Result(<<Acquire("sheets")>>, SendError(ServerError, CredentialMessage), sheet)
  ELSE IF ~parsed.ok
  THEN Result(<<Acquire("sheets")>>,
              SendError(BadRequest, "Invalid JSON in 'values' field"), sheet)
  ELSE IF ~o.ok
  THEN Result(<<Acquire("sheets"), call>>, SendError(ServerError, o.message), sheet)
  ELSE Result(<<Acquire("sheets"), call>>,
              SendJson(DefaultStatus,
                       [t |-> "object", updatedRange |-> ResponseData(call, o).updatedRange]),
              SheetAfter(call))

(***************************************************************************)
(* The diagnostic prober: app.get("/list_revenue_folder").  Five queries,  *)
(* each in its own try/catch; os[i] is the outcome of the i-th.            *)
(***************************************************************************)
\* The hardcoded Revenue Reports folder.
RevenueFolderId == <<"1", "s", "w">>

ProbeLabels ==
  <<"standard", "withSharedDrives", "spreadsheetsInFolder", "folderMetadata",
    "withoutTrashedFilter">>

\* The five queries, in the order of the source.
ProbeCalls ==
  <<Call("files.list",
         [NoArgs EXCEPT !.byParent = TRUE, !.parent = RevenueFolderId,
                        !.notTrashed = TRUE, !.pageSize = 100,
                        !.fields = "files(id, name, mimeType, modifiedTime, webViewLink, parents, permissions)"]),
    Call("files.list",
         [NoArgs EXCEPT !.byParent = TRUE, !.parent = RevenueFolderId,
                        !.pageSize = 100, !.allDrives = TRUE,
                        !.fields = "files(id, name, mimeType, modifiedTime, webViewLink)"]),
    Call("files.list",
         [NoArgs EXCEPT !.spreadsheetsOnly = TRUE, !.notTrashed = TRUE,
                        !.pageSize = 100, !.fields = "files(id, name, parents)"]),
    Call("files.get",
         [NoArgs EXCEPT !.fileId = RevenueFolderId,
                        !.fields = "id, name, mimeType, permissions, owners, sharingUser, ownedByMe, shared, capabilities"]),
    Call("files.list",
         [NoArgs EXCEPT !.byParent = TRUE, !.parent = RevenueFolderId,
                        !.pageSize = 100, !.fields = "files(id, name, trashed)"])>>

ProbeOutcomes == [1..Len(ProbeLabels) -> Outcomes]

\* The spreadsheets the third query lists: one in the folder, one in
\* another, one that reports no parents.
SpreadsheetEntries ==
  <<[t |-> "object", id |-> "F1", parents |-> Arr(<<Str(RevenueFolderId)>>)],
    [t |-> "object", id |-> "F2", parents |-> Arr(<<Str(<<"o">>)>>)],
    [t |-> "object", id |-> "F3", parents |-> Undef]>>

\* response.data.files of a resolved files.list of the prober.
ProbeFiles(i, o) ==
  IF o.sparse THEN Undef
  ELSE IF i = 3 THEN Arr(SpreadsheetEntries)
  ELSE Arr(<<FileEntry>>)

\* file.parents && file.parents.includes(folderId)
InFolder(file, folderId) ==
  /\ Truthy(file.parents)
  /\ \E k \in 1..Len(file.parents.a) : file.parents.a[k] = Str(folderId)

\* response3.data.files?.filter(...) || []
FilesInFolder(files, folderId) ==
  IF IsUndefined(files) THEN Arr(<<>>)
  ELSE Arr(SelectSeq(files.a, LAMBDA f : InFolder(f, folderId)))

CountAndFiles(files) ==
  [t |-> "object", count |-> LengthOrZero(files), files |-> OrElse(files, Arr(<<>>))]

\* The sub-result of the i-th query under outcome o: what its try block
\* stores, or what its catch block stores.
ProbeResult(i, o) ==
  IF ~o.ok THEN [t |-> "object", error |-> o.message]
  ELSE IF i = 3 THEN CountAndFiles(FilesInFolder(ProbeFiles(i, o), RevenueFolderId))
  ELSE IF i = 4 THEN [t |-> "object", id |-> RevenueFolderId]
  ELSE CountAndFiles(ProbeFiles(i, o))

\* results.x?.count || 0
CountOrZero(sub) == IF "count" \in DOMAIN sub THEN sub.count ELSE 0

\* The prober without its inner try/catch blocks: the first query that is
\* rejected ends the run in the outer catch.
list_revenue_folder_aborting(os) ==
  LET failed == {i \in 1..Len(ProbeLabels) : ~os[i].ok}
      first == CHOOSE i \in failed : \A j \in failed : i <= j
      results == [l \in {ProbeLabels[i] : i \in 1..Len(ProbeLabels)} |->
                    LET i == CHOOSE k \in 1..Len(ProbeLabels) : ProbeLabels[k] = l
                    IN ProbeResult(i, os[i])]
  IN
  IF ~CredentialOk
  THEN Result(<<Acquire("drive")>>, SendError(ServerError, CredentialMessage), sheet)
  ELSE IF failed # {}
  THEN Result(<<Acquire("drive")>> \o SubSeq(ProbeCalls, 1, first),
              SendError(ServerError, os[first].message), sheet)
  ELSE Result(<<Acquire("drive")>> \o ProbeCalls,
              SendJson(DefaultStatus,
                       [t |-> "object", success |-> TRUE, folderId |-> RevenueFolderId,
                        folderName |-> "Revenue Reports (Hardcoded)",
                        results |-> results,
                        summary |-> [standardQuery |-> CountOrZero(results.standard),
                                     withSharedDrives |-> CountOrZero(results.withSharedDrives),
                                     spreadsheetsFound |-> CountOrZero(results.spreadsheetsInFolder),
                                     withoutTrashedFilter |-> CountOrZero(results.withoutTrashedFilter)]]),
              sheet)

\* app.get("/list_revenue_folder")
list_revenue_folder(os) ==
  LET results == [l \in {ProbeLabels[i] : i \in 1..Len(ProbeLabels)} |->
                    LET i == CHOOSE k \in 1..Len(ProbeLabels) : ProbeLabels[k] = l
                    IN ProbeResult(i, os[i])]
  IN
  IF ~CredentialOk
  THEN Result(<<Acquire("drive")>>, SendError(ServerError, CredentialMessage), sheet)
  ELSE Result(<<Acquire("drive")>> \o ProbeCalls,
              SendJson(DefaultStatus,
                       [t |-> "object", success |-> TRUE, folderId |-> RevenueFolderId,
                        folderName |-> "Revenue Reports (Hardcoded)",
                        results |-> results,
                        summary |-> [standardQuery |-> CountOrZero(results.standard),
                                     withSharedDrives |-> CountOrZero(results.withSharedDrives),
                                     spreadsheetsFound |-> CountOrZero(results.spreadsheetsInFolder),
                                     withoutTrashedFilter |-> CountOrZero(results.withoutTrashedFilter)]]),
              sheet)

(***************************************************************************)
(* The tool functions of the MCP server (part_001).  A tool returns a      *)
(* value or throws; it sends no status.                                    *)
(***************************************************************************)
\* readSheet(spreadsheetId, range)
readSheet(args, o) ==
  LET call == Call("values.get",
                   [NoArgs EXCEPT !.spreadsheetId = args.spreadsheetId,
                                  !.range = args.range])
  IN
  IF ~CredentialOk
  THEN Result(<<Acquire("clients")>>, ToolThrow(CredentialMessage), sheet)
  ELSE IF ~o.ok
  THEN Result(<<Acquire("clients"), call>>, ToolThrow(o.message), sheet)
  ELSE Result(<<Acquire("clients"), call>>,
              ToolReturn(ResponseData(call, o).values), SheetAfter(call))

\* writeSheet(spreadsheetId, range, values): no insertDataOption is passed.
writeSheet(args, o) ==
  LET call == Call("values.append",
                   [NoArgs EXCEPT !.spreadsheetId = args.spreadsheetId,
                                  !.range = args.range,
                                  !.valueInputOption = "USER_ENTERED",
                                  !.values = args.values])
  IN
  IF ~CredentialOk
  THEN Result(<<Acquire("clients")>>, ToolThrow(CredentialMessage), sheet)
  ELSE IF ~o.ok
  THEN Result(<<Acquire("clients"), call>>, ToolThrow(o.message), sheet)
  ELSE Result(<<Acquire("clients"), call>>,
              ToolReturn(ResponseData(call, o).updates), SheetAfter(call))

\* updateSheet(spreadsheetId, range, values)
updateSheet(args, o) ==
  LET call == Call("values.update",
                   [NoArgs EXCEPT !.spreadsheetId = args.spreadsheetId,
                                  !.range = args.range,
                                  !.valueInputOption = "USER_ENTERED",
                                  !.values = args.values])
  IN
  IF ~CredentialOk
  THEN Result(<<Acquire("clients")>>, ToolThrow(CredentialMessage), sheet)
  ELSE IF ~o.ok
  THEN Result(<<Acquire("clients"), call>>, ToolThrow(o.message), sheet)
  ELSE Result(<<Acquire("clients"), call>>,
              ToolReturn(ResponseData(call, o).updatedRange), SheetAfter(call))

(***************************************************************************)
(* Actions: one per route and per tool.                                    *)
(***************************************************************************)
NoRequest == [op |-> "none", body |-> EmptyBody]

Init ==
  /\ credential \in {"valid", "unusable"}
  /\ sheet \in InitialSheets
  /\ req = NoRequest
  /\ trace = <<>>
  /\ outcome = NoOutcome
  /\ probes = <<>>
  /\ res = NoResponse

\* No request is being answered.
Idle == req = NoRequest

\* The request op with this body is answered as r, under upstream outcome o.
Handle(op, body, r, o) ==
  /\ Realizable(r, o)
  /\ req' = [op |-> op, body |-> body]
  /\ trace' = r.trace
  /\ outcome' = IF Calls(r.trace) = <<>> THEN NoOutcome ELSE o
  /\ probes' = <<>>
  /\ res' = r.res
  /\ sheet' = r.sheet
  /\ UNCHANGED credential

GetListSheets ==
  /\ Idle
  /\ \E o \in Outcomes : Handle("list_sheets", EmptyBody, list_sheets(o), o)

PostListFolder ==
  /\ Idle
  /\ \E f \in BodyFolderIds, o \in Outcomes :
       Handle("list_folder", FolderBody(f), list_folder(FolderBody(f), o), o)

GetListFolderFiles ==
  /\ Idle
  /\ \E f \in QueryFolderIds, o \in Outcomes :
       Handle("list_folder_files", FolderBody(f), list_folder_files(FolderBody(f), o), o)

PostReadSheet ==
  /\ Idle
  /\ \E b \in ReadBodies, o \in Outcomes : Handle("read_sheet", b, read_sheet(b, o), o)

PostWriteSheet ==
  /\ Idle
  /\ \E b \in WriteBodies, o \in Outcomes : Handle("write_sheet", b, write_sheet(b, o), o)

PostUpdateSheet ==
  /\ Idle
  /\ \E b \in WriteBodies, o \in Outcomes : Handle("update_sheet", b, update_sheet(b, o), o)

ToolReadSheet ==
  /\ Idle
  /\ \E b \in ReadBodies, o \in Outcomes : Handle("readSheet", b, readSheet(b, o), o)

ToolWriteSheet ==
  /\ Idle
  /\ \E b \in WriteBodies, o \in Outcomes : Handle("writeSheet", b, writeSheet(b, o), o)

ToolUpdateSheet ==
  /\ Idle
  /\ \E b \in WriteBodies, o \in Outcomes : Handle("updateSheet", b, updateSheet(b, o), o)

\* The prober answers under the outcomes os of its five queries.
GetListRevenueFolder ==
  /\ Idle
  /\ \E os \in ProbeOutcomes :
       LET r == list_revenue_folder(os) IN
       /\ req' = [op |-> "list_revenue_folder", body |-> EmptyBody]
       /\ trace' = r.trace
       /\ outcome' = NoOutcome
       /\ probes' = IF Calls(r.trace) = <<>> THEN <<>> ELSE os
       /\ res' = r.res
       /\ sheet' = r.sheet
       /\ UNCHANGED credential

\* The response is sent and the request is over: nothing of it is kept, the
\* credential and the upstream sheet stay as they are.
EndRequest ==
  /\ req # NoRequest
  /\ req' = NoRequest
  /\ trace' = <<>>
  /\ outcome' = NoOutcome
  /\ probes' = <<>>
  /\ res' = NoResponse
  /\ UNCHANGED <<credential, sheet>>

Next ==
  \/ EndRequest
  \/ GetListSheets
  \/ PostListFolder
  \/ GetListFolderFiles
  \/ PostReadSheet
  \/ PostWriteSheet
  \/ PostUpdateSheet
  \/ ToolReadSheet
  \/ ToolWriteSheet
  \/ ToolUpdateSheet
  \/ GetListRevenueFolder

Spec == Init /\ [][Next]_vars

(***************************************************************************)
(* Properties.                                                             *)
(***************************************************************************)
Answered == req # NoRequest

HttpSheetOps == {"read_sheet", "write_sheet", "update_sheet"}

HttpListFolderOps == {"list_folder", "list_folder_files"}

HttpOps == {"list_sheets"} \cup HttpListFolderOps \cup HttpSheetOps

\* A parameter that is missing or empty.
MissingOrEmpty(v) == IsUndefined(v) \/ v = Null \/ v = Str(<<>>)

NoCallIssued == Calls(trace) = <<>>

ClientError == res.via = "http" /\ res.status = BadRequest /\ res.body.kind = "error"

\* C1: a read-sheet, append-sheet or update-sheet request whose spreadsheetId
\* or range is missing or empty issues no upstream call and is answered 400
\* with an error message.
C1_MissingParameterRejected ==
  (/\ req.op \in HttpSheetOps
   /\ MissingOrEmpty(req.body.spreadsheetId) \/ MissingOrEmpty(req.body.range))
  => (NoCallIssued /\ ClientError)

\* The list call of a list-folder request: drive.files.list filtered by
\* the parent folder.
IsFolderListCall(c, folderId) ==
  /\ c.api = "files.list"
  /\ c.args.byParent
  /\ c.args.parent = ToStringJS(folderId)
  /\ c.args.notTrashed

\* C2 as stated: a list-folder request whose folderId is missing or empty is
\* answered 400 with an error message, with no handle acquired and no call;
\* when folderId is present exactly one drive.files.list call filtered by
\* that parent is issued.
C2_ListFolderAsStated ==
  req.op \in HttpListFolderOps =>
    IF MissingOrEmpty(req.body.folderId)
    THEN ClientError /\ trace = <<>>
    ELSE /\ Len(Calls(trace)) = 1
         /\ IsFolderListCall(Calls(trace)[1], req.body.folderId)

\* C2 as amended: a list-folder request whose folderId is falsy (missing,
\* null, the empty string, 0) is answered 400 with an error message, with no
\* handle acquired and no call; when folderId is truthy the handle is
\* acquired once and then, if the credential is usable, exactly one
\* drive.files.list call filtered by that parent is issued; if it is not,
\* none is.
C2_ListFolderValidation ==
  req.op \in HttpListFolderOps =>
    IF ~Truthy(req.body.folderId)
    THEN ClientError /\ trace = <<>>
    ELSE /\ Len(Acquires(trace)) = 1
         /\ trace[1].ev = "acquire"
         /\ IF CredentialOk
            THEN /\ Len(Calls(trace)) = 1
                 /\ IsFolderListCall(Calls(trace)[1], req.body.folderId)
            ELSE NoCallIssued

\* A list-folder request by query with an empty folderId was answered 400.
C2_Witness ==
  /\ req.op = "list_folder_files"
  /\ req.body.folderId = Str(<<>>)
  /\ ClientError
  /\ trace = <<>>

\* A `values` string that is not JSON text.
MalformedValues(v) == IsString(v) /\ ~JSONParse(v.s).ok

\* C3: an update-sheet request whose values is a string that is not valid
\* JSON is answered 400 with the invalid-encoding message and issues no
\* upstream call.
C3_MalformedEncodingRejected ==
  (req.op = "update_sheet" /\ MalformedValues(req.body.values))
  => /\ ClientError
     /\ res.body.message = "Invalid JSON in 'values' field"
     /\ NoCallIssued

\* The handler of a write or update route.
WriteHandler(op, body, o) ==
  IF op = "write_sheet" THEN write_sheet(body, o) ELSE update_sheet(body, o)

\* C4: a write or update request carrying the JSON text of a matrix M does
\* what the request carrying M itself does: the same trace (the same
\* upstream call, with values = M), the same response, the same sheet.
C4_EncodingTransparent ==
  [][\A M \in Matrices :
       (/\ req'.op \in {"write_sheet", "update_sheet"}
        /\ req'.body.values = Str(JSONStringify(M)))
       => \E o \in Outcomes :
            LET r == WriteHandler(req'.op, [req'.body EXCEPT !.values = M], o) IN
            /\ Realizable(r, o)
            /\ trace' = r.trace
            /\ res' = r.res
            /\ sheet' = r.sheet]_vars

\* What a `values` parameter decodes to: a JSON text to its value.
Decoded(v) == IF IsString(v) /\ JSONParse(v.s).ok THEN JSONParse(v.s).v ELSE v

IsWriteCall(c) == c.api \in {"values.append", "values.update"}

\* C5: every upstream append or update call carries an array as values; a
\* write or update request whose values is absent or does not decode to an
\* array is answered with a client error and issues no upstream call.
C5_ValuesIsArray ==
  /\ \A i \in 1..Len(trace) :
       (trace[i].ev = "call" /\ IsWriteCall(trace[i])) => IsArray(trace[i].args.values)
  /\ (/\ req.op \in {"write_sheet", "update_sheet"}
      /\ ~IsArray(Decoded(req.body.values)))
     => (NoCallIssued /\ ClientError)

\* C6: a read whose upstream call resolved answers with a payload: the
\* values the provider reported, or the empty sequence when it reported none.
C6_ReadEmptyIsSuccess ==
  (req.op \in {"read_sheet", "readSheet"} /\ outcome.called /\ outcome.ok)
  => /\ res.body.kind = "payload"
     /\ res.body.payload = OrElse(ValuesOf(sheet), Arr(<<>>))

\* The upstream work of the request succeeded: its call resolved, or, for
\* the prober (which catches each query's rejection), its queries were issued.
UpstreamSucceeded ==
  IF req.op = "list_revenue_folder" THEN probes # <<>> ELSE outcome.called /\ outcome.ok

\* C7: every response carries a payload or an error message, never
\* neither: a payload when the operation succeeded, an error message when
\* it failed.
C7_PayloadXorError ==
  Answered =>
    /\ res.body.kind \in {"payload", "error"}
    /\ res.body.kind = "payload" <=> (UpstreamSucceeded /\ res.status \in {0, DefaultStatus})

\* C8: a request to list-spreadsheets, list-folder, read, append or update
\* acquires at most one handle and issues at most one upstream call; when
\* the acquisition or the call fails nothing is tried again and the answer
\* is 500 with the message of that failure.
C8_SingleAttemptVerbatimError ==
  req.op \in HttpOps =>
    /\ Len(Acquires(trace)) <= 1
    /\ Len(Calls(trace)) <= 1
    /\ (Len(Acquires(trace)) = 1 /\ ~CredentialOk) =>
         /\ NoCallIssued
         /\ res.status = ServerError
         /\ res.body = ErrorBody(CredentialMessage)
    /\ (outcome.called /\ ~outcome.ok) =>
         /\ res.status = ServerError
         /\ res.body = ErrorBody(outcome.message)

\* An update request whose upstream call was rejected was answered 500.
C8_Witness ==
  /\ req.op = "update_sheet"
  /\ outcome.called /\ ~outcome.ok
  /\ Len(Calls(trace)) = 1
  /\ res.status = ServerError

\* C9: an append that the provider carried out was issued with user-entered
\* interpretation and left the sheet holding the rows of the table, then the
\* appended rows, then the rows that were below the table: no earlier row is
\* overwritten or reordered, so two appends A then B in sequence leave the
\* table's rows followed by A's followed by B's.
C9_AppendAdditive ==
  [][(req'.op \in {"write_sheet", "writeSheet"} /\ outcome'.called /\ outcome'.ok)
     => LET c == Calls(trace')[1]
            t == TableEnd(sheet)
        IN /\ c.args.valueInputOption = "USER_ENTERED"
           /\ sheet' = SubSeq(sheet, 1, t - 1) \o RowsOf(c.args.values)
                       \o SubSeq(sheet, t, Len(sheet))]_vars

\* The validation a handler performs fails for its request.
FailsValidation ==
  \/ req.op \in HttpListFolderOps /\ ~Truthy(req.body.folderId)
  \/ req.op = "update_sheet" /\ MalformedValues(req.body.values)

\* C10: a request that fails its handler's validation is answered with a
\* client error before any handle is acquired or call issued, whatever the
\* state of the credential.
C10_ValidationBeforeHandle ==
  FailsValidation => (ClientError /\ trace = <<>>)

(***************************************************************************)
(* The diagnostic prober's report.                                         *)
(***************************************************************************)
ProberAnswered == req.op = "list_revenue_folder"

\* The calls of the request are the five queries, in their order, once each.
ProbesIssuedInOrder == Calls(trace) = ProbeCalls

\* The sub-result stored under the i-th label is the i-th query's own
\* result when it resolved, and its own error message when it was rejected.
OwnSubResult(results, i) ==
  LET sub == results[ProbeLabels[i]] IN
  IF probes[i].ok
  THEN /\ "error" \notin DOMAIN sub
       /\ IF i = 4 THEN sub.id = RevenueFolderId
          ELSE IsArray(sub.files) /\ sub.count = Len(sub.files.a)
  ELSE /\ DOMAIN sub = {"t", "error"}
       /\ sub.error = probes[i].message

\* The response is a success report with one labelled sub-result per query.
SuccessReport ==
  /\ res.via = "http"
  /\ res.status = DefaultStatus
  /\ res.body.kind = "payload"
  /\ res.body.payload.success
  /\ DOMAIN res.body.payload.results = {ProbeLabels[i] : i \in 1..Len(ProbeLabels)}
  /\ Len(probes) = Len(ProbeLabels)
  /\ \A i \in 1..Len(ProbeLabels) : OwnSubResult(res.body.payload.results, i)

\* C11, as stated: every request to the prober issues its five queries in
\* the fixed order, each exactly once, whatever the earlier ones did, and
\* answers with a success report holding one labelled sub-result per query,
\* each that query's result or that query's own error message.
C11_ProberAsStated ==
  ProberAnswered => ProbesIssuedInOrder /\ SuccessReport

\* C11, amended: once the drive handle is acquired the prober issues its
\* five queries in the fixed order, each exactly once, whatever the earlier
\* ones did, and answers with a success report holding one labelled
\* sub-result per query, each that query's result or that query's own error
\* message; when the handle cannot be acquired no query is issued and the
\* answer is a server error with the acquisition's message.
C11_ProberReport ==
  ProberAnswered =>
    /\ Acquires(trace) = <<Acquire("drive")>>
    /\ trace[1] = Acquire("drive")
    /\ IF CredentialOk
       THEN ProbesIssuedInOrder /\ SuccessReport
       ELSE /\ Calls(trace) = <<>>
            /\ res = SendError(ServerError, CredentialMessage)

\* A prober run whose first and fourth queries were rejected with different
\* messages while the last one resolved, reported as a success.
C11_Witness ==
  /\ ProberAnswered
  /\ CredentialOk
  /\ Len(probes) = Len(ProbeLabels)
  /\ ~probes[1].ok /\ ~probes[4].ok /\ probes[1].message # probes[4].message
  /\ probes[3].ok /\ probes[5].ok
  /\ Len(Calls(trace)) = Len(ProbeLabels)
  /\ res.status = DefaultStatus
  /\ res.body.payload.results.standard.error = probes[1].message
  /\ res.body.payload.results.folderMetadata.error = probes[4].message
  /\ res.body.payload.results.spreadsheetsInFolder.count = 1

=============================================================================
